---- MODULE Spec2Model ----
(***************************************************************************)
(* Path normalisation utilities of src/filesystem/path-utils.ts.           *)
(*                                                                         *)
(* A string is a sequence of UTF-16 code units (naturals).  Every function *)
(* of the source is an operator computed the way the source computes it;   *)
(* the library calls it makes (String.prototype.trim, path.normalize,      *)
(* new URL, decodeURIComponent) are modelled by what they do on the        *)
(* characters the inputs are built from.                                   *)
(***************************************************************************)
EXTENDS Integers, Sequences, FiniteSets

\* ------------------------------------------------------------------------
\* Code units the source names in its literals and regular expressions.
Slash     == 47
Backslash == 92
Colon     == 58
Dot       == 46
DQuote    == 34
SQuote    == 39
Space     == 32
Percent   == 37

\* '/mnt/' (line 11)
MntPrefix == <<47, 109, 110, 116, 47>>
\* 'file:' (line 110)
FilePrefix == <<102, 105, 108, 101, 58>>

\* ------------------------------------------------------------------------
\* Bounds of the model.
MaxTokens == 4
MaxReapply == 2
MaxUriTokens == 5

\* ------------------------------------------------------------------------
\* JavaScript string primitives.

IsUpper(c) == c >= 65 /\ c <= 90
IsLower(c) == c >= 97 /\ c <= 122
IsLetter(c) == IsUpper(c) \/ IsLower(c)

\* String.prototype.toUpperCase on one code unit (ASCII range).
UpperChar(c) == IF IsLower(c) THEN c - 32 ELSE c
LowerChar(c) == IF IsUpper(c) THEN c + 32 ELSE c

ToUpperCase(s) == [i \in 1..Len(s) |-> UpperChar(s[i])]

\* s.charAt(i), i counted from 0: the empty string when i is out of range.
CharAt(s, i) == IF i < Len(s) THEN <<s[i + 1]>> ELSE <<>>

\* s.slice(i), i counted from 0.
Slice(s, i) == SubSeq(s, i + 1, Len(s))

\* s.slice(i, j), i and j counted from 0.
SliceRange(s, i, j) == SubSeq(s, i + 1, IF j < Len(s) THEN j ELSE Len(s))

\* s.startsWith(pre)
StartsWith(s, pre) ==
    /\ Len(s) >= Len(pre)
    /\ \A i \in 1..Len(pre) : s[i] = pre[i]

\* s.replace(/\//g, '\\')
SlashesToBackslashes(s) ==
    [i \in 1..Len(s) |-> IF s[i] = Slash THEN Backslash ELSE s[i]]

\* White space and line terminators String.prototype.trim removes.
IsWhiteSpace(c) == c \in {9, 10, 11, 12, 13, 32, 160, 5760, 8232, 8233, 8239, 8287, 12288, 65279}
                   \/ (c >= 8192 /\ c <= 8202)

RECURSIVE TrimStart(_)
TrimStart(s) ==
    IF s # <<>> /\ IsWhiteSpace(Head(s)) THEN TrimStart(Tail(s)) ELSE s

RECURSIVE TrimEnd(_)
TrimEnd(s) ==
    IF s # <<>> /\ IsWhiteSpace(s[Len(s)])
    THEN TrimEnd(SubSeq(s, 1, Len(s) - 1)) ELSE s

\* String.prototype.trim
Trim(s) == TrimEnd(TrimStart(s))

IsQuote(c) == c = DQuote \/ c = SQuote

\* s.replace(/^["']|["']$/g, ''): the scan removes a quote at index 0, goes
\* on after it, and removes a quote at the last index.
StripQuotes(s) ==
    LET lead  == Len(s) >= 1 /\ IsQuote(s[1])
        trail == Len(s) >= 2 /\ IsQuote(s[Len(s)])
    IN  SubSeq(s, IF lead THEN 2 ELSE 1, IF trail THEN Len(s) - 1 ELSE Len(s))

\* s.replace(/\/+/g, '/'): every run of slashes becomes one slash.
RECURSIVE CollapseSlashRuns(_)
CollapseSlashRuns(s) ==
    IF s = <<>> THEN <<>>
    ELSE IF Len(s) >= 2 /\ s[1] = Slash /\ s[2] = Slash
    THEN CollapseSlashRuns(Tail(s))
    ELSE <<s[1]>> \o CollapseSlashRuns(Tail(s))

\* s.replace(/\/+$/, ''): the trailing run of slashes is removed.
RECURSIVE StripTrailingSlashes(_)
StripTrailingSlashes(s) ==
    IF s # <<>> /\ s[Len(s)] = Slash
    THEN StripTrailingSlashes(SubSeq(s, 1, Len(s) - 1)) ELSE s

\* s.replace(/\\\\/g, '\\'): one left-to-right scan; each pair of adjacent
\* backslashes it meets becomes one backslash and the scan goes on after it.
RECURSIVE CollapseBackslashPairs(_)
CollapseBackslashPairs(s) ==
    IF Len(s) >= 2 /\ s[1] = Backslash /\ s[2] = Backslash
    THEN <<Backslash>> \o CollapseBackslashPairs(Slice(s, 2))
    ELSE IF s = <<>> THEN <<>>
    ELSE <<s[1]>> \o CollapseBackslashPairs(Tail(s))

\* s.replace(/^\\{2,}/, '\\\\'): the leading run of two or more backslashes
\* becomes exactly two.
RECURSIVE DropLeadingBackslashes(_)
DropLeadingBackslashes(s) ==
    IF s # <<>> /\ Head(s) = Backslash THEN DropLeadingBackslashes(Tail(s)) ELSE s

LeadingBackslashesToTwo(s) ==
    IF Len(s) >= 2 /\ s[1] = Backslash /\ s[2] = Backslash
    THEN <<Backslash, Backslash>> \o DropLeadingBackslashes(s)
    ELSE s

UncPrefix == <<Backslash, Backslash>>

\* ------------------------------------------------------------------------
\* convertToWindowsPath (lines 9-31)

\* p.match(/^\/[a-zA-Z]\//)
MatchesUnixDrive(p) ==
    Len(p) >= 3 /\ p[1] = Slash /\ IsLetter(p[2]) /\ p[3] = Slash

\* p.match(/^[a-zA-Z]:/)
MatchesDriveLetter(p) ==
    Len(p) >= 2 /\ IsLetter(p[1]) /\ p[2] = Colon

\* A variant that keeps the drive letter's case.
convertToWindowsPath_KeepCase(p) ==
    IF StartsWith(p, MntPrefix)
    THEN CharAt(p, 5) \o <<Colon>> \o SlashesToBackslashes(Slice(p, 6))
    ELSE IF MatchesUnixDrive(p)
    THEN CharAt(p, 1) \o <<Colon>> \o SlashesToBackslashes(Slice(p, 2))
    ELSE IF MatchesDriveLetter(p)
    THEN SlashesToBackslashes(p)
    ELSE p

convertToWindowsPath(p) ==
    IF StartsWith(p, MntPrefix)
    THEN ToUpperCase(CharAt(p, 5)) \o <<Colon>> \o SlashesToBackslashes(Slice(p, 6))
    ELSE IF MatchesUnixDrive(p)
    THEN ToUpperCase(CharAt(p, 1)) \o <<Colon>> \o SlashesToBackslashes(Slice(p, 2))
    ELSE IF MatchesDriveLetter(p)
    THEN SlashesToBackslashes(p)
    ELSE p

\* ------------------------------------------------------------------------
\* path.normalize of the host platform (line 72).

IsPosixSep(c) == c = Slash
IsWin32Sep(c) == c = Slash \/ c = Backslash

\* isPathSeparator of the win32 flavour, isPosixPathSeparator otherwise.
IsSep(c, win32) == IF win32 THEN IsWin32Sep(c) ELSE IsPosixSep(c)

\* The segments of s between separators, empty ones included.
RECURSIVE SplitOn(_, _, _)
SplitOn(s, win32, cur) ==
    IF s = <<>> THEN <<cur>>
    ELSE IF IsSep(Head(s), win32) THEN <<cur>> \o SplitOn(Tail(s), win32, <<>>)
    ELSE SplitOn(Tail(s), win32, Append(cur, Head(s)))

DotDot == <<Dot, Dot>>

\* normalizeString: '.' and empty segments are dropped; '..' removes the
\* segment before it, or is kept when there is none to remove and the path
\* may climb above its root.
RECURSIVE ResolveSegments(_, _, _)
ResolveSegments(segs, allowAboveRoot, res) ==
    IF segs = <<>> THEN res
    ELSE LET seg == Head(segs) IN
         IF seg = <<>> \/ seg = <<Dot>>
         THEN ResolveSegments(Tail(segs), allowAboveRoot, res)
         ELSE IF seg = DotDot
         THEN IF res # <<>> /\ res[Len(res)] # DotDot
              THEN ResolveSegments(Tail(segs), allowAboveRoot, SubSeq(res, 1, Len(res) - 1))
              ELSE IF allowAboveRoot
              THEN ResolveSegments(Tail(segs), allowAboveRoot, Append(res, DotDot))
              ELSE ResolveSegments(Tail(segs), allowAboveRoot, res)
         ELSE ResolveSegments(Tail(segs), allowAboveRoot, Append(res, seg))

RECURSIVE JoinWith(_, _)
JoinWith(segs, sep) ==
    IF segs = <<>> THEN <<>>
    ELSE IF Len(segs) = 1 THEN segs[1]
    ELSE segs[1] \o <<sep>> \o JoinWith(Tail(segs), sep)

normalizeString(s, allowAboveRoot, sep, win32) ==
    JoinWith(ResolveSegments(SplitOn(s, win32, <<>>), allowAboveRoot, <<>>), sep)

\* path.posix.normalize
PosixNormalize(s) ==
    IF s = <<>> THEN <<Dot>>
    ELSE LET isAbsolute == s[1] = Slash
             trailing   == s[Len(s)] = Slash
             body       == normalizeString(s, ~isAbsolute, Slash, FALSE)
         IN  IF body = <<>>
             THEN (IF isAbsolute THEN <<Slash>>
                   ELSE IF trailing THEN <<Dot, Slash>> ELSE <<Dot>>)
             ELSE (IF isAbsolute THEN <<Slash>> ELSE <<>>) \o body
                  \o (IF trailing THEN <<Slash>> ELSE <<>>)

\* The index (from 0) where the run of separators (sep) or of other code
\* units (~sep) that starts at j ends.
RECURSIVE SkipWhile(_, _, _)
SkipWhile(s, j, sep) ==
    IF j < Len(s) /\ IsWin32Sep(s[j + 1]) = sep THEN SkipWhile(s, j + 1, sep) ELSE j

\* The root path.win32.normalize matches in s (of two code units or more):
\* where it ends, the device it names if any, whether s is absolute, and
\* whether s is a bare UNC root '\\server\share'.
Win32Root(s) ==
    LET len == Len(s)
        noDevice == [rootEnd |-> 0, device |-> <<>>, hasDevice |-> FALSE,
                 isAbsolute |-> TRUE, uncOnly |-> FALSE]
    IN
    IF IsWin32Sep(s[1])
    THEN IF IsWin32Sep(s[2])
         THEN LET j1 == SkipWhile(s, 2, FALSE) IN
              IF j1 < len /\ j1 # 2
              THEN LET j2 == SkipWhile(s, j1, TRUE) IN
                   IF j2 < len /\ j2 # j1
                   THEN LET j3 == SkipWhile(s, j2, FALSE)
                            unc == UncPrefix \o SubSeq(s, 3, j1) \o <<Backslash>>
                                   \o SubSeq(s, j2 + 1, j3)
                        IN  IF j3 = len
                            THEN [noDevice EXCEPT !.device = unc, !.hasDevice = TRUE,
                                              !.uncOnly = TRUE, !.rootEnd = len]
                            ELSE IF j3 # j2
                            THEN [noDevice EXCEPT !.device = unc, !.hasDevice = TRUE,
                                              !.rootEnd = j3]
                            ELSE noDevice
                   ELSE noDevice
              ELSE noDevice
         ELSE [noDevice EXCEPT !.rootEnd = 1]
    ELSE IF IsLetter(s[1]) /\ s[2] = Colon
    THEN IF len > 2 /\ IsWin32Sep(s[3])
         THEN [noDevice EXCEPT !.device = SubSeq(s, 1, 2), !.hasDevice = TRUE, !.rootEnd = 3]
         ELSE [noDevice EXCEPT !.device = SubSeq(s, 1, 2), !.hasDevice = TRUE,
                           !.rootEnd = 2, !.isAbsolute = FALSE]
    ELSE [noDevice EXCEPT !.isAbsolute = FALSE]

\* path.win32.normalize
Win32Normalize(s) ==
    IF s = <<>> THEN <<Dot>>
    ELSE IF Len(s) = 1 THEN (IF s[1] = Slash THEN <<Backslash>> ELSE s)
    ELSE LET root == Win32Root(s) IN
         IF root.uncOnly THEN root.device \o <<Backslash>>
         ELSE LET t0 == IF root.rootEnd < Len(s)
                        THEN normalizeString(Slice(s, root.rootEnd), ~root.isAbsolute,
                                             Backslash, TRUE)
                        ELSE <<>>
                  t1 == IF t0 = <<>> /\ ~root.isAbsolute THEN <<Dot>> ELSE t0
                  tail == IF t1 # <<>> /\ IsWin32Sep(s[Len(s)])
                          THEN Append(t1, Backslash) ELSE t1
              IN  IF ~root.hasDevice
                  THEN (IF root.isAbsolute THEN <<Backslash>> \o tail ELSE tail)
                  ELSE (IF root.isAbsolute THEN root.device \o <<Backslash>> \o tail
                        ELSE root.device \o tail)

\* path.normalize: the implementation of the platform the process runs on.
PathNormalize(s, plat) ==
    IF plat = "win32" THEN Win32Normalize(s) ELSE PosixNormalize(s)

\* ------------------------------------------------------------------------
\* normalizePath (lines 38-92)

\* line 40
Unquote(p) == StripQuotes(Trim(p))

\* p.match(/^\/mnt\/[a-z]\//i)
MatchesWslMount(p) ==
    /\ Len(p) >= 7
    /\ p[1] = Slash
    /\ LowerChar(p[2]) = 109 /\ LowerChar(p[3]) = 110 /\ LowerChar(p[4]) = 116
    /\ p[5] = Slash
    /\ IsLetter(p[6])
    /\ p[7] = Slash

\* lines 43-45, on the unquoted string
isUnixPath(p) ==
    /\ StartsWith(p, <<Slash>>)
    /\ ~MatchesWslMount(p)
    /\ ~MatchesUnixDrive(p)

\* line 50
NormalizeUnix(p) == StripTrailingSlashes(CollapseSlashRuns(p))

\* lines 57-69
CollapseBackslashes(p) ==
    IF StartsWith(p, UncPrefix)
    THEN UncPrefix \o CollapseBackslashPairs(Slice(LeadingBackslashesToTwo(p), 2))
    ELSE CollapseBackslashPairs(p)

\* lines 75-77
FixUnc(p, normalized) ==
    IF StartsWith(p, UncPrefix) /\ ~StartsWith(normalized, UncPrefix)
    THEN <<Backslash>> \o normalized
    ELSE normalized

\* A variant that leaves the drive letter as it is.
CapitalizeDrive_Skipped(result) == result

\* lines 83-85
CapitalizeDrive(result) ==
    IF Len(result) >= 2 /\ IsLower(result[1]) /\ result[2] = Colon
    THEN ToUpperCase(CharAt(result, 0)) \o Slice(result, 1)
    ELSE result

\* lines 80-91
Finish(normalized) ==
    IF MatchesDriveLetter(normalized)
    THEN CapitalizeDrive(SlashesToBackslashes(normalized))
    ELSE SlashesToBackslashes(normalized)

normalizePath(p0, plat) ==
    LET p == Unquote(p0) IN
    IF isUnixPath(p) THEN NormalizeUnix(p)
    ELSE LET q == CollapseBackslashes(convertToWindowsPath(p))
         IN  Finish(FixUnc(q, PathNormalize(q, plat)))

\* ------------------------------------------------------------------------
\* decodeURIComponent (lines 112, 127, 140): [ok, value]; ok is FALSE where
\* the call throws URIError.

IsHexDigit(c) == (c >= 48 /\ c <= 57) \/ (c >= 65 /\ c <= 70) \/ (c >= 97 /\ c <= 102)

HexVal(c) == IF c <= 57 THEN c - 48 ELSE IF c <= 70 THEN c - 55 ELSE c - 87

\* s starts with an escape '%XX'.
StartsWithEscape(s) ==
    Len(s) >= 3 /\ s[1] = Percent /\ IsHexDigit(s[2]) /\ IsHexDigit(s[3])

EscapeByte(s) == 16 * HexVal(s[2]) + HexVal(s[3])

\* The number of octets of the UTF-8 sequence the octet b starts: 1 for an
\* ASCII octet, 0 for an octet that starts none.
Utf8Length(b) ==
    IF b < 128 THEN 1
    ELSE IF b >= 194 /\ b <= 223 THEN 2
    ELSE IF b >= 224 /\ b <= 239 THEN 3
    ELSE IF b >= 240 /\ b <= 244 THEN 4
    ELSE 0

\* The k-th escape of s is a continuation octet.
IsContinuation(s, k) ==
    LET e == SubSeq(s, 3 * k - 2, 3 * k)
    IN  StartsWithEscape(e) /\ EscapeByte(e) >= 128 /\ EscapeByte(e) <= 191

ContinuationBits(s, k) == EscapeByte(SubSeq(s, 3 * k - 2, 3 * k)) - 128

\* The code point the n escapes at the head of s encode.
CodePoint(s, n) ==
    LET b == EscapeByte(s) IN
    IF n = 2 THEN (b - 192) * 64 + ContinuationBits(s, 2)
    ELSE IF n = 3 THEN (b - 224) * 4096 + ContinuationBits(s, 2) * 64 + ContinuationBits(s, 3)
    ELSE (b - 240) * 262144 + ContinuationBits(s, 2) * 4096
         + ContinuationBits(s, 3) * 64 + ContinuationBits(s, 4)

ValidCodePoint(cp, n) ==
    IF n = 2 THEN cp >= 128
    ELSE IF n = 3 THEN cp >= 2048 /\ ~(cp >= 55296 /\ cp <= 57343)
    ELSE cp >= 65536 /\ cp <= 1114111

\* The UTF-16 code units of a code point.
Utf16(cp) ==
    IF cp < 65536 THEN <<cp>>
    ELSE <<55296 + ((cp - 65536) \div 1024), 56320 + ((cp - 65536) % 1024)>>

DecodeFailure == [ok |-> FALSE, value |-> <<>>]

RECURSIVE decodeURIComponent(_)
decodeURIComponent(s) ==
    IF s = <<>> THEN [ok |-> TRUE, value |-> <<>>]
    ELSE IF s[1] # Percent
    THEN LET rest == decodeURIComponent(Tail(s))
         IN  IF rest.ok THEN [ok |-> TRUE, value |-> <<s[1]>> \o rest.value]
             ELSE DecodeFailure
    ELSE IF ~StartsWithEscape(s) THEN DecodeFailure
    ELSE LET n == Utf8Length(EscapeByte(s)) IN
         IF n = 0 \/ Len(s) < 3 * n THEN DecodeFailure
         ELSE IF \E k \in 2..n : ~IsContinuation(s, k) THEN DecodeFailure
         ELSE LET units == IF n = 1 THEN <<EscapeByte(s)>> ELSE Utf16(CodePoint(s, n))
                  rest  == decodeURIComponent(Slice(s, 3 * n))
              IN  IF n > 1 /\ ~ValidCodePoint(CodePoint(s, n), n) THEN DecodeFailure
                  ELSE IF rest.ok THEN [ok |-> TRUE, value |-> units \o rest.value]
                  ELSE DecodeFailure

\* p.match(/%[0-9A-Fa-f]{2}/)
ContainsEscape(s) ==
    \E i \in 1..Len(s) : StartsWithEscape(SubSeq(s, i, Len(s)))

\* ------------------------------------------------------------------------
\* new URL(uri) (line 111) for a 'file:' URI with no base: [ok, pathname];
\* ok is FALSE where the constructor throws TypeError.  The URL Standard's
\* parser is followed for inputs made of 'file:', '/', '%', ' ', digits and
\* letters, where ':' occurs only within 'file:': such a URI has no query,
\* fragment, dot segment, drive letter, IPv6 literal, dotted host or
\* non-ASCII host label.

\* Leading and trailing C0 controls and spaces are removed from the input.
RECURSIVE StripTrailingSpace(_)
StripTrailingSpace(s) ==
    IF s # <<>> /\ s[Len(s)] <= Space
    THEN StripTrailingSpace(SubSeq(s, 1, Len(s) - 1)) ELSE s

\* The host's octets after percent-decoding; a '%' that starts no escape
\* stands for itself.
RECURSIVE PercentDecodeHost(_)
PercentDecodeHost(h) ==
    IF h = <<>> THEN <<>>
    ELSE IF StartsWithEscape(h) THEN <<EscapeByte(h)>> \o PercentDecodeHost(Slice(h, 3))
    ELSE <<h[1]>> \o PercentDecodeHost(Tail(h))

\* Forbidden domain code points: C0 controls, space, '#', '%', '/', ':',
\* '<', '>', '?', '@', '[', '\', ']', '^', '|', DEL.
ForbiddenDomainCodePoint(c) ==
    c <= 32 \/ c \in {35, 37, 47, 58, 60, 62, 63, 64, 91, 92, 93, 94, 124, 127}

IsDigit(c) == c >= 48 /\ c <= 57

\* 4294967295, the largest IPv4 address, in decimal digits.
MaxIPv4 == <<52, 50, 57, 52, 57, 54, 55, 50, 57, 53>>

\* a <= b for two strings of decimal digits of the same length.
RECURSIVE DigitsLeq(_, _)
DigitsLeq(a, b) ==
    IF a = <<>> THEN TRUE
    ELSE IF a[1] # b[1] THEN a[1] < b[1]
    ELSE DigitsLeq(Tail(a), Tail(b))

\* The host parser accepts h: its decoded octets are ASCII (an octet from
\* 128 up begins no valid UTF-8 sequence here and fails domain-to-ASCII),
\* none is a forbidden domain code point, and a host of decimal digits (no
\* leading zero) is an IPv4 address of at most 2^32 - 1.
ValidFileHost(h) ==
    LET d == PercentDecodeHost(h) IN
    /\ \A i \in 1..Len(d) : d[i] < 128 /\ ~ForbiddenDomainCodePoint(d[i])
    /\ (\A i \in 1..Len(d) : IsDigit(d[i]))
          => (Len(d) < 10 \/ (Len(d) = 10 /\ DigitsLeq(d, MaxIPv4)))

\* The path state percent-encodes the code points of the path percent-encode
\* set; of the ASCII ones these are the C0 controls, space, '"', '#', '<',
\* '>', '?', '`', '{', '}' and DEL.
InPathPercentEncodeSet(c) ==
    c <= 32 \/ c \in {34, 35, 60, 62, 63, 96, 123, 125, 127}

HexDigitUpper(v) == IF v < 10 THEN 48 + v ELSE 55 + v

RECURSIVE EncodePath(_)
EncodePath(s) ==
    IF s = <<>> THEN <<>>
    ELSE IF InPathPercentEncodeSet(s[1])
    THEN <<Percent, HexDigitUpper(s[1] \div 16), HexDigitUpper(s[1] % 16)>>
         \o EncodePath(Tail(s))
    ELSE <<s[1]>> \o EncodePath(Tail(s))

\* The index (from 1) of the first slash of s, Len(s) + 1 when it has none.
RECURSIVE FirstSlash(_, _)
FirstSlash(s, i) ==
    IF i > Len(s) \/ s[i] = Slash THEN i ELSE FirstSlash(s, i + 1)

ParseFileUrl(uri) ==
    LET r == Slice(StripTrailingSpace(uri), Len(FilePrefix)) IN
    IF StartsWith(r, <<Slash, Slash>>)
    THEN \* file host state: the host runs to the next slash
         LET afterHost == FirstSlash(r, 3)
             host == SubSeq(r, 3, afterHost - 1)
             path == SubSeq(r, afterHost, Len(r))
         IN  IF host # <<>> /\ ~ValidFileHost(host)
             THEN [ok |-> FALSE, pathname |-> <<>>]
             ELSE [ok |-> TRUE,
                   pathname |-> IF path = <<>> THEN <<Slash>> ELSE EncodePath(path)]
    ELSE IF StartsWith(r, <<Slash>>)
    THEN \* file slash state, then path state
         [ok |-> TRUE, pathname |-> EncodePath(r)]
    ELSE \* file state, then path state
         [ok |-> TRUE, pathname |-> <<Slash>> \o EncodePath(r)]

\* ------------------------------------------------------------------------
\* fileUriToPath (lines 106-133): [raised, value]

\* lines 114-120
WindowsAdjust(p) ==
    LET q == IF StartsWith(p, <<Slash>>) /\ MatchesDriveLetter(SliceRange(p, 1, 3))
             THEN Slice(p, 1) ELSE p
    IN  SlashesToBackslashes(q)

\* uri.replace(/^file:\/\//i, '')
StripFileScheme(uri) ==
    IF Len(uri) >= 7
       /\ (\A i \in 1..4 : LowerChar(uri[i]) = FilePrefix[i])
       /\ uri[5] = Colon /\ uri[6] = Slash /\ uri[7] = Slash
    THEN Slice(uri, 7)
    ELSE uri

\* A variant without the percent-decoding fallback.
Fallback_ReturnsInput(uri) == [raised |-> FALSE, value |-> uri]

\* lines 122-132: the catch block
Fallback(uri) ==
    LET decoded == decodeURIComponent(StripFileScheme(uri))
    IN  IF decoded.ok THEN [raised |-> FALSE, value |-> decoded.value]
        ELSE [raised |-> FALSE, value |-> uri]

fileUriToPath(uri, plat) ==
    IF uri = <<>> THEN [raised |-> FALSE, value |-> uri]
    ELSE IF ~StartsWith(uri, FilePrefix) THEN [raised |-> FALSE, value |-> uri]
    ELSE LET u == ParseFileUrl(uri) IN
         IF ~u.ok THEN Fallback(uri)
         ELSE LET p == decodeURIComponent(u.pathname) IN
              IF ~p.ok THEN Fallback(uri)
              ELSE [raised |-> FALSE,
                    value |-> IF plat = "win32" THEN WindowsAdjust(p.value) ELSE p.value]

\* ------------------------------------------------------------------------
\* decodePossibleFileUri (lines 135-143): [raised, value]

\* A variant without the try/catch around the decoding.
TryDecode_Uncaught(p) ==
    LET decoded == decodeURIComponent(p)
    IN  [raised |-> ~decoded.ok, value |-> decoded.value]

\* line 140
TryDecode(p) ==
    LET decoded == decodeURIComponent(p)
    IN  IF decoded.ok THEN [raised |-> FALSE, value |-> decoded.value]
        ELSE [raised |-> FALSE, value |-> p]

decodePossibleFileUri(p, plat) ==
    IF StartsWith(p, FilePrefix) THEN fileUriToPath(p, plat)
    ELSE IF ContainsEscape(p) THEN TryDecode(p)
    ELSE [raised |-> FALSE, value |-> p]

\* ------------------------------------------------------------------------
\* Inputs: every concatenation of at most MaxTokens (paths) or MaxUriTokens
\* (URIs) tokens.

PathTokens ==
    { <<Slash>>, <<Backslash>>, <<Colon>>, <<Dot>>, <<DQuote>>, <<Space>>,
      <<99>>,                          \* c
      <<68>>,                          \* D
      MntPrefix,                       \* /mnt/
      <<47, 77, 78, 84, 47>> }         \* /MNT/

UriTokens ==
    { FilePrefix, <<Slash>>, <<Percent>>, <<Space>>,
      <<51>>,                          \* 3
      <<97>> }                         \* a

RECURSIVE Concatenations(_, _)
Concatenations(tokens, n) ==
    IF n = 0 THEN {<<>>}
    ELSE LET shorter == Concatenations(tokens, n - 1)
         IN  shorter \cup {s \o t : s \in shorter, t \in tokens}

PathInputs == Concatenations(PathTokens, MaxTokens)

UriInputs == Concatenations(UriTokens, MaxUriTokens)

Platforms == {"posix", "win32"}

\* ------------------------------------------------------------------------
\* State: one call of a function of the module on the platform the process
\* runs on (process.platform, which also selects path.normalize).

VARIABLES
    platform,   \* process.platform
    op,         \* "ready", or the function that was called
    arg,        \* the argument of the call
    ret,        \* the value the call returned
    raised,     \* the call threw instead of returning
    unquoted,   \* normalizePath: the value of p after line 40
    applied     \* normalizePath: how many times it was applied in a row

vars == <<platform, op, arg, ret, raised, unquoted, applied>>

Ready(inputs) ==
    /\ platform \in Platforms
    /\ op = "ready"
    /\ arg \in inputs
    /\ ret = <<>>
    /\ raised = FALSE
    /\ unquoted = <<>>
    /\ applied = 0

Init == Ready(PathInputs)

ConvertToWindowsPath ==
    /\ op = "ready"
    /\ op' = "convertToWindowsPath"
    /\ ret' = convertToWindowsPath(arg)
    /\ UNCHANGED <<platform, arg, raised, unquoted, applied>>

NormalizePath ==
    /\ op = "ready"
    /\ op' = "normalizePath"
    /\ unquoted' = Unquote(arg)
    /\ ret' = normalizePath(arg, platform)
    /\ applied' = 1
    /\ UNCHANGED <<platform, arg, raised>>

\* normalizePath applied to the path the previous call returned.
NormalizeAgain ==
    /\ op = "normalizePath"
    /\ applied < MaxReapply
    /\ arg' = ret
    /\ unquoted' = Unquote(ret)
    /\ ret' = normalizePath(ret, platform)
    /\ applied' = applied + 1
    /\ UNCHANGED <<platform, op, raised>>

Next ==
    \/ ConvertToWindowsPath
    \/ NormalizePath
    \/ NormalizeAgain

Spec == Init /\ [][Next]_vars

\* The URI functions, on URI inputs.
UriInit == Ready(UriInputs)

FileUriToPath ==
    /\ op = "ready"
    /\ op' = "fileUriToPath"
    /\ LET r == fileUriToPath(arg, platform)
       IN  ret' = r.value /\ raised' = r.raised
    /\ UNCHANGED <<platform, arg, unquoted, applied>>

DecodePossibleFileUri ==
    /\ op = "ready"
    /\ op' = "decodePossibleFileUri"
    /\ LET r == decodePossibleFileUri(arg, platform)
       IN  ret' = r.value /\ raised' = r.raised
    /\ UNCHANGED <<platform, arg, unquoted, applied>>

UriNext ==
    \/ FileUriToPath
    \/ DecodePossibleFileUri

UriSpec == UriInit /\ [][UriNext]_vars

\* ------------------------------------------------------------------------
\* Properties.

HasNoSlash(s) == \A i \in 1..Len(s) : s[i] # Slash

\* '/mnt/<letter>/...' exactly as written: lower-case 'mnt'.
IsWslMountInput(p) ==
    StartsWith(p, MntPrefix) /\ Len(p) >= 7 /\ IsLetter(p[6]) /\ p[7] = Slash

\* ret is '<LETTER>:' followed by rest with every '/' turned into '\'.
IsDriveForm(result, letter, rest) ==
    /\ Len(result) = 2 + Len(rest)
    /\ IsUpper(result[1])
    /\ (result[1] = letter \/ result[1] + 32 = letter)
    /\ result[2] = Colon
    /\ \A i \in 1..Len(rest) :
          result[2 + i] = (IF rest[i] = Slash THEN Backslash ELSE rest[i])

\* C1: normalizePath applied to a path normalizePath returned gives that
\* path back.
C1_Idempotent ==
    (op = "normalizePath" /\ applied >= 2) => ret = arg

\* C2: convertToWindowsPath turns '/mnt/<letter>/rest' and '/<letter>/rest'
\* into '<LETTER>:\rest': the letter upper-cased, every '/' after the drive
\* segment replaced by '\', nothing else changed.
C2_DriveConversion ==
    op = "convertToWindowsPath" =>
        /\ IsWslMountInput(arg) => IsDriveForm(ret, arg[6], Slice(arg, 6))
        /\ MatchesUnixDrive(arg) => IsDriveForm(ret, arg[2], Slice(arg, 2))

\* '/mnt/c/D' became 'C:\D'.
C2_Witness ==
    /\ op = "convertToWindowsPath"
    /\ IsWslMountInput(arg)
    /\ arg = MntPrefix \o <<99, 47, 68>>
    /\ ret = <<67, 58, 92, 68>>

\* C3: convertToWindowsPath returns unchanged every input that is none of
\* '/mnt/<letter>/...', '/<letter>/...' and '<letter>:...'.
C3_UnmatchedPassesThrough ==
    ( /\ op = "convertToWindowsPath"
      /\ ~IsWslMountInput(arg)
      /\ ~MatchesUnixDrive(arg)
      /\ ~MatchesDriveLetter(arg) ) => ret = arg

\* C4: the result for a Unix-classified path is non-empty, starts with '/',
\* has no two consecutive '/', and has no trailing '/' unless it is '/'.
C4_UnixForm ==
    (op = "normalizePath" /\ isUnixPath(unquoted)) =>
        /\ ret # <<>>
        /\ ret[1] = Slash
        /\ \A i \in 1..(Len(ret) - 1) : ~(ret[i] = Slash /\ ret[i + 1] = Slash)
        /\ (ret[Len(ret)] = Slash => ret = <<Slash>>)

\* C5: for an input that starts with two or more backslashes the result
\* starts with exactly two, and no doubled backslash follows them.
C5_UncTwoBackslashes ==
    (op = "normalizePath" /\ StartsWith(arg, UncPrefix)) =>
        /\ StartsWith(ret, UncPrefix)
        /\ \A i \in 3..Len(ret) : ~(ret[i] = Backslash /\ ret[i - 1] = Backslash)

\* C6: after trimming, the first stage removes one leading and one trailing
\* quote only when both are present, and otherwise removes nothing.
C6_QuotesStripAsPair ==
    (op = "normalizePath" /\ Len(Trim(arg)) >= 2) =>
        LET t == Trim(arg)
            both == IsQuote(t[1]) /\ IsQuote(t[Len(t)])
        IN  unquoted = IF both THEN SubSeq(t, 2, Len(t) - 1) ELSE t

\* C7: a result of normalizePath that did not come from the Unix
\* short-circuit has no '/', and its drive letter, if it begins with
\* '<letter>:', is upper-case; convertToWindowsPath on '<letter>:...'
\* changes only '/' into '\' and leaves the drive letter as given.
C7_WindowsForm ==
    /\ (op = "normalizePath" /\ ~isUnixPath(unquoted)) =>
          /\ HasNoSlash(ret)
          /\ MatchesDriveLetter(ret) => IsUpper(ret[1])
    /\ (op = "convertToWindowsPath" /\ MatchesDriveLetter(arg)) =>
          /\ Len(ret) = Len(arg)
          /\ ret[1] = arg[1]
          /\ \A i \in 1..Len(arg) :
                ret[i] = (IF arg[i] = Slash THEN Backslash ELSE arg[i])

\* normalizePath('c:/c') is 'C:\c'.
C7_Witness ==
    /\ op = "normalizePath"
    /\ arg = <<99, 58, 47, 99>>
    /\ ret = <<67, 58, 92, 99>>

\* URI parsing, or percent-decoding of the path component, fails.
IsMalformedFileUri(uri) ==
    /\ StartsWith(uri, FilePrefix)
    /\ LET u == ParseFileUrl(uri)
       IN  ~u.ok \/ ~decodeURIComponent(u.pathname).ok

C9_DecodeTotal ==
    op = "decodePossibleFileUri" =>
        /\ ~raised
        /\ StartsWith(arg, FilePrefix) => ret = fileUriToPath(arg, platform).value
        /\ ~StartsWith(arg, FilePrefix) =>
              LET d == decodeURIComponent(arg)
              IN  IF ContainsEscape(arg) /\ d.ok THEN ret = d.value ELSE ret = arg

\* '/a%3a' is decoded to '/a:'.
C9_Witness ==
    /\ op = "decodePossibleFileUri"
    /\ ContainsEscape(arg)
    /\ arg = <<47, 97, 37, 51, 97>>
    /\ ret = <<47, 97, 58>>
    /\ ~raised

\* C10: an input excluded from the Unix short-circuit by the WSL-mount or
\* the single-letter-drive pattern comes out beginning '<LETTER>:\'.
C10_DriveFold ==
    (op = "normalizePath" /\ (MatchesWslMount(unquoted) \/ MatchesUnixDrive(unquoted))) =>
        LET letter == IF MatchesUnixDrive(unquoted) THEN unquoted[2] ELSE unquoted[6]
        IN  /\ Len(ret) >= 3
            /\ IsUpper(ret[1])
            /\ (ret[1] = letter \/ ret[1] + 32 = letter)
            /\ ret[2] = Colon
            /\ ret[3] = Backslash

====
